---- MODULE Spec2Model ----
(***************************************************************************)
(* Model of src/app/page.tsx: the DevnetRugPullDemo component.             *)
(*                                                                         *)
(* The React state (walletAvailable, publicKey, connecting, busy, txSig,   *)
(* step) is modelled as the committed state of the component.  Every       *)
(* action is one synchronous segment of JavaScript: a click handler up to  *)
(* its first await, or the continuation that runs when an awaited promise  *)
(* settles.  The setState calls of a segment are collected in call order   *)
(* and committed together (React batches the updates of one segment), so   *)
(* the committed value of a field is the value of its last update.         *)
(*                                                                         *)
(* The wallet (window.solana) and the ledger (connection) are the          *)
(* environment: every promise they return may resolve, reject, or stay     *)
(* pending.                                                                *)
(***************************************************************************)
EXTENDS Integers, Sequences, FiniteSets, TLC

\* ---- bounds of the model ----
MaxCalls == 2         \* simulateScamFlow invocations per run
MaxHeight == 1        \* block-height advances of the ledger per run
ValidityWindow == 1   \* lastValidBlockHeight - height of a fetched blockhash

\* ---- values ----
Null == "null"
Keys == {"K1"}
Sigs == {"SIG1", "SIG2"}
Steps == {"intro", "form", "processing", "error", "refundFunnel", "done"}

NoWalletMsg == "No Solana wallet found. Install Phantom and switch to Devnet."
NotConnectedMsg == "Wallet not connected."
ConnectFallbackMsg == "Failed to connect wallet"
TxFallbackMsg == "Transaction failed"

\* values a rejected promise carries: an Error with or without a message
Errors == {[message |-> "User rejected the request."], [message |-> ""]}

\* values provider.signAndSendTransaction resolves with: an object with a
\* signature field, a bare signature string, or nothing usable
SignResults ==
  {[kind |-> "obj", signature |-> s] : s \in Sigs}
    \cup {[kind |-> "str", value |-> s] : s \in Sigs}
    \cup {[kind |-> "undef"]}

\* values provider.connect() resolves with: res.publicKey present or absent
ConnectResults == Keys \cup {Null}

ProviderKinds == {"none", "phantom", "other", "unknown"}

NoRef == [blockhash |-> -1, lastValidBlockHeight |-> -1, fetchId |-> 0]

IdleCall ==
  [pc |-> "idle", ref |-> NoRef, signature |-> Null, outcome |-> "none"]

CallIds == 1..MaxCalls

VARIABLES
  provider,        \* window.solana: [kind, publicKey]
  walletAvailable, \* useState, line 37
  publicKey,       \* useState, line 38
  connecting,      \* useState, line 39
  busy,            \* useState, line 40
  txSig,           \* useState, line 41
  step,            \* useState, lines 42-49
  lastAlert,       \* text of the latest alert() shown
  connectPending,  \* connectWallet invocations awaiting provider.connect()
  calls,           \* simulateScamFlow invocations: position and locals
  nCalls,          \* simulateScamFlow invocations started
  height,          \* current block height of the ledger
  fetchLog,        \* getLatestBlockhash calls issued: the invoking call
  submitLog,       \* signAndSendTransaction calls issued: call and reference
  confirmLog,      \* confirmTransaction calls issued: call, signature, reference
  ledgerConfirmed  \* signatures whose confirmTransaction resolved

vars ==
  <<provider, walletAvailable, publicKey, connecting, busy, txSig, step,
    lastAlert, connectPending, calls, nCalls, height, fetchLog, submitLog,
    confirmLog, ledgerConfirmed>>

envVars == <<height, ledgerConfirmed>>

\* ---- React state updates ----
Set(k, v) == [key |-> k, val |-> v]

RECURSIVE ApplyUpdates(_, _)
ApplyUpdates(s, updates) ==
  IF updates = <<>> THEN s
  ELSE ApplyUpdates([s EXCEPT ![Head(updates).key] = Head(updates).val],
                    Tail(updates))

ReactState ==
  [walletAvailable |-> walletAvailable, publicKey |-> publicKey,
   connecting |-> connecting, busy |-> busy, txSig |-> txSig, step |-> step]

Commit(updates) ==
  LET s == ApplyUpdates(ReactState, updates) IN
  /\ walletAvailable' = s.walletAvailable
  /\ publicKey' = s.publicKey
  /\ connecting' = s.connecting
  /\ busy' = s.busy
  /\ txSig' = s.txSig
  /\ step' = s.step

\* (e as Error).message || fallback
AlertText(e, fallback) == IF e.message # "" THEN e.message ELSE fallback

\* ---- explorerTxUrl (useMemo over txSig) ----
ExplorerBase == "https://explorer.solana.com"

\* a JavaScript string is truthy unless it is null or empty
Truthy(s) == s # Null /\ s # ""

ExplorerTxUrl_NoCluster(sig) ==
  IF Truthy(sig) THEN ExplorerBase \o "/tx/" \o sig \o "?cluster=" ELSE Null

\* txSig ? `https://explorer.solana.com/tx/${txSig}?cluster=devnet` : null
ExplorerTxUrl(sig) ==
  IF Truthy(sig) THEN ExplorerBase \o "/tx/" \o sig \o "?cluster=devnet" ELSE Null

explorerTxUrl == ExplorerTxUrl(txSig)

\* ---- mount: useEffect probe ----
ProbeAvailable(p) == p.kind \in {"phantom", "other"}

ProbePublicKey(p) ==
  IF p.kind = "phantom" /\ p.publicKey # Null THEN p.publicKey ELSE Null

Init ==
  /\ provider \in [kind : ProviderKinds, publicKey : Keys \cup {Null}]
  /\ provider.kind = "none" => provider.publicKey = Null
  /\ walletAvailable = ProbeAvailable(provider)
  /\ publicKey = ProbePublicKey(provider)
  /\ connecting = FALSE
  /\ busy = FALSE
  /\ txSig = Null
  /\ step = "intro"
  /\ lastAlert = "none"
  /\ connectPending = 0
  /\ calls = [c \in CallIds |-> IdleCall]
  /\ nCalls = 0
  /\ height = 0
  /\ fetchLog = <<>>
  /\ submitLog = <<>>
  /\ confirmLog = <<>>
  /\ ledgerConfirmed = {}

\* ---- step buttons ----
Start ==
  /\ step = "intro"
  /\ Commit(<<Set("step", "form")>>)
  /\ UNCHANGED <<provider, lastAlert, connectPending, calls, nCalls, fetchLog,
                 submitLog, confirmLog, envVars>>

RequestRefund ==
  /\ step = "error"
  /\ Commit(<<Set("step", "refundFunnel")>>)
  /\ UNCHANGED <<provider, lastAlert, connectPending, calls, nCalls, fetchLog,
                 submitLog, confirmLog, envVars>>

Finish ==
  /\ step = "refundFunnel"
  /\ Commit(<<Set("step", "done")>>)
  /\ UNCHANGED <<provider, lastAlert, connectPending, calls, nCalls, fetchLog,
                 submitLog, confirmLog, envVars>>

\* ---- connectWallet ----
ConnectEnabled_Always == TRUE

\* the Connect Wallet button: rendered while !publicKey, disabled={connecting}
ConnectEnabled == publicKey = Null /\ ~connecting

ConnectClick ==
  /\ ConnectEnabled
  /\ IF provider.kind = "none"
       THEN /\ Commit(<<Set("connecting", TRUE), Set("connecting", FALSE)>>)
            /\ lastAlert' = NoWalletMsg
            /\ UNCHANGED connectPending
       ELSE /\ Commit(<<Set("connecting", TRUE)>>)
            /\ connectPending' = connectPending + 1
            /\ UNCHANGED lastAlert
  /\ UNCHANGED <<provider, calls, nCalls, fetchLog, submitLog, confirmLog,
                 envVars>>

ConnectResolve(key, res) ==
  /\ connectPending > 0
  /\ res \in {key, Null}
  /\ provider' = [provider EXCEPT !.publicKey = key]
  /\ Commit(<<Set("publicKey", res), Set("connecting", FALSE)>>)
  /\ connectPending' = connectPending - 1
  /\ UNCHANGED <<lastAlert, calls, nCalls, fetchLog, submitLog, confirmLog,
                 envVars>>

ConnectReject_NoFinally(e) ==
  /\ connectPending > 0
  /\ lastAlert' = AlertText(e, ConnectFallbackMsg)
  /\ Commit(<<>>)
  /\ connectPending' = connectPending - 1
  /\ UNCHANGED <<provider, calls, nCalls, fetchLog, submitLog, confirmLog,
                 envVars>>

ConnectReject(e) ==
  /\ connectPending > 0
  /\ lastAlert' = AlertText(e, ConnectFallbackMsg)
  /\ Commit(<<Set("connecting", FALSE)>>)
  /\ connectPending' = connectPending - 1
  /\ UNCHANGED <<provider, calls, nCalls, fetchLog, submitLog, confirmLog,
                 envVars>>

\* ---- environment: the wallet extension and the ledger ----
WalletDisconnect ==
  /\ provider.publicKey # Null
  /\ provider' = [provider EXCEPT !.publicKey = Null]
  /\ UNCHANGED <<walletAvailable, publicKey, connecting, busy, txSig, step,
                 lastAlert, connectPending, calls, nCalls, fetchLog, submitLog,
                 confirmLog, envVars>>

LedgerTick ==
  /\ height < MaxHeight
  /\ height' = height + 1
  /\ UNCHANGED <<provider, walletAvailable, publicKey, connecting, busy, txSig,
                 step, lastAlert, connectPending, calls, nCalls, fetchLog,
                 submitLog, confirmLog, ledgerConfirmed>>

\* ---- simulateScamFlow ----
\* the Create Token button: rendered in the form step, disabled={!publicKey || busy}
SubmitEnabled_AnyStep == publicKey # Null /\ ~busy

SubmitEnabled_Reentrant == step \in {"form", "processing"} /\ publicKey # Null

SubmitEnabled == step = "form" /\ publicKey # Null /\ ~busy

\* !provider?.publicKey is false
ProviderHasKey_Unchecked(p) == TRUE

ProviderHasKey(p) == p.kind # "none" /\ p.publicKey # Null

\* setBusy(true); setStep("processing")
EntryUpdates == <<Set("busy", TRUE), Set("step", "processing")>>

\* catch: setStep("form"); finally: setBusy(false)
FailureUpdates_NoFinally == <<Set("step", "form")>>

FailureUpdates_Error == <<Set("step", "error"), Set("busy", FALSE)>>

FailureUpdates_NoRevert == <<Set("busy", FALSE)>>

FailureUpdates == <<Set("step", "form"), Set("busy", FALSE)>>

\* no setState between signAndSendTransaction resolving and confirmTransaction
SignedUpdates_Early(signature) == <<Set("txSig", signature)>>

SignedUpdates(signature) == <<>>

\* setTxSig(signature)
ConfirmedUpdates_Skip(signature) == <<>>

ConfirmedUpdates(signature) == <<Set("txSig", signature)>>

DelayUpdates_NoFinally == <<Set("step", "error")>>

DelayUpdates_BackToForm == <<Set("step", "form"), Set("busy", FALSE)>>

\* setStep("error"); finally: setBusy(false)
DelayUpdates == <<Set("step", "error"), Set("busy", FALSE)>>

\* sig?.signature || sig
ExtractSignature(sig) ==
  IF sig.kind = "obj" THEN sig.signature
  ELSE IF sig.kind = "str" THEN sig.value
  ELSE Null

\* what connection.getLatestBlockhash resolves with, for the fetch fetchLog[id]
LatestBlockhash(id) ==
  [blockhash |-> height, lastValidBlockHeight |-> height + ValidityWindow,
   fetchId |-> id]

\* the { blockhash, lastValidBlockHeight } call c builds and confirms with
RefUsed_Cached(c, fetched) ==
  IF c > 1 /\ calls[c - 1].ref # NoRef THEN calls[c - 1].ref ELSE fetched

RefUsed(c, fetched) == fetched

\* position of call c's getLatestBlockhash in fetchLog
FetchIdOf(c) == CHOOSE i \in DOMAIN fetchLog : fetchLog[i] = c

Submit ==
  /\ SubmitEnabled
  /\ nCalls < MaxCalls
  /\ nCalls' = nCalls + 1
  /\ IF ProviderHasKey(provider)
       THEN /\ Commit(EntryUpdates)
            /\ calls' = [calls EXCEPT ![nCalls + 1].pc = "fetch"]
            /\ fetchLog' = Append(fetchLog, nCalls + 1)
            /\ UNCHANGED lastAlert
       ELSE /\ Commit(EntryUpdates \o FailureUpdates)
            /\ calls' = [calls EXCEPT ![nCalls + 1].pc = "done",
                                      ![nCalls + 1].outcome = "NotConnected"]
            /\ lastAlert' = NotConnectedMsg
            /\ UNCHANGED fetchLog
  /\ UNCHANGED <<provider, connectPending, submitLog, confirmLog, envVars>>

Fail_Retry(c, e, outcome) ==
  /\ lastAlert' = AlertText(e, TxFallbackMsg)
  /\ Commit(<<>>)
  /\ calls' = [calls EXCEPT ![c].pc = "fetch"]

\* catch (e) { alert(...); setStep("form") } finally { setBusy(false) }
Fail(c, e, outcome) ==
  /\ lastAlert' = AlertText(e, TxFallbackMsg)
  /\ Commit(FailureUpdates)
  /\ calls' = [calls EXCEPT ![c].pc = "done", ![c].outcome = outcome]

FetchResolve(c) ==
  /\ calls[c].pc = "fetch"
  /\ LET ref == RefUsed(c, LatestBlockhash(FetchIdOf(c))) IN
     /\ calls' = [calls EXCEPT ![c].pc = "sign", ![c].ref = ref]
     /\ submitLog' = Append(submitLog, [call |-> c, ref |-> ref])
  /\ UNCHANGED <<provider, walletAvailable, publicKey, connecting, busy, txSig,
                 step, lastAlert, connectPending, nCalls, fetchLog, confirmLog,
                 envVars>>

FetchReject(c, e) ==
  /\ calls[c].pc = "fetch"
  /\ Fail(c, e, "FetchFailed")
  /\ UNCHANGED <<provider, connectPending, nCalls, fetchLog, submitLog,
                 confirmLog, envVars>>

ConfirmRef_Refetched(c) == LatestBlockhash(0)

\* confirmTransaction({ signature, blockhash, lastValidBlockHeight }): the
\* locals destructured from the invocation's getLatestBlockhash
ConfirmRef(c) == calls[c].ref

SignResolve(c, sig) ==
  /\ calls[c].pc = "sign"
  /\ LET signature == ExtractSignature(sig) IN
     /\ calls' = [calls EXCEPT ![c].pc = "confirm", ![c].signature = signature]
     /\ confirmLog' =
          Append(confirmLog, [call |-> c, signature |-> signature,
                              ref |-> ConfirmRef(c)])
     /\ Commit(SignedUpdates(signature))
  /\ UNCHANGED <<provider, lastAlert, connectPending, nCalls, fetchLog,
                 submitLog, envVars>>

SignReject(c, e) ==
  /\ calls[c].pc = "sign"
  /\ Fail(c, e, "Rejected")
  /\ UNCHANGED <<provider, connectPending, nCalls, fetchLog, submitLog,
                 confirmLog, envVars>>

\* confirmTransaction resolves only for a well-formed signature
ConfirmResolve(c) ==
  /\ calls[c].pc = "confirm"
  /\ calls[c].signature # Null
  /\ ledgerConfirmed' = ledgerConfirmed \cup {calls[c].signature}
  /\ Commit(ConfirmedUpdates(calls[c].signature))
  /\ calls' = [calls EXCEPT ![c].pc = "delay", ![c].outcome = "Confirmed"]
  /\ UNCHANGED <<provider, lastAlert, connectPending, nCalls, fetchLog,
                 submitLog, confirmLog, height>>

ConfirmReject(c, e) ==
  /\ calls[c].pc = "confirm"
  /\ Fail(c, e, "ConfirmFailed")
  /\ UNCHANGED <<provider, connectPending, nCalls, fetchLog, submitLog,
                 confirmLog, envVars>>

\* the 1200 ms timer fires
DelayElapsed(c) ==
  /\ calls[c].pc = "delay"
  /\ Commit(DelayUpdates)
  /\ calls' = [calls EXCEPT ![c].pc = "done"]
  /\ UNCHANGED <<provider, lastAlert, connectPending, nCalls, fetchLog,
                 submitLog, confirmLog, envVars>>

\* ---- specification ----
Next ==
  \/ Start
  \/ RequestRefund
  \/ Finish
  \/ ConnectClick
  \/ \E key \in Keys, res \in ConnectResults : ConnectResolve(key, res)
  \/ \E e \in Errors : ConnectReject(e)
  \/ WalletDisconnect
  \/ LedgerTick
  \/ Submit
  \/ \E c \in CallIds : FetchResolve(c)
  \/ \E c \in CallIds, e \in Errors : FetchReject(c, e)
  \/ \E c \in CallIds, sig \in SignResults : SignResolve(c, sig)
  \/ \E c \in CallIds, e \in Errors : SignReject(c, e)
  \/ \E c \in CallIds : ConfirmResolve(c)
  \/ \E c \in CallIds, e \in Errors : ConfirmReject(c, e)
  \/ \E c \in CallIds : DelayElapsed(c)

Spec == Init /\ [][Next]_vars

\* the event loop runs a timer callback once its timer has expired, and the
\* wallet and the reference fetch are assumed to answer; nothing in the code
\* bounds the wait for confirmTransaction
LiveSpec ==
  /\ Spec
  /\ WF_vars(\E c \in CallIds : DelayElapsed(c))
  /\ WF_vars(\E c \in CallIds : FetchResolve(c) \/ (\E e \in Errors : FetchReject(c, e)))
  /\ WF_vars(\E c \in CallIds :
               \/ \E sig \in SignResults : SignResolve(c, sig)
               \/ \E e \in Errors : SignReject(c, e))

InFlight(c) == calls[c].pc \in {"fetch", "sign", "confirm", "delay"}

TypeOK ==
  /\ step \in Steps
  /\ busy \in BOOLEAN
  /\ connecting \in BOOLEAN
  /\ walletAvailable \in BOOLEAN
  /\ publicKey \in Keys \cup {Null}
  /\ txSig \in Sigs \cup {Null}
  /\ nCalls \in 0..MaxCalls
  /\ height \in 0..MaxHeight

\* ---- properties ----
Table ==
  {<<"intro", "form">>, <<"form", "processing">>, <<"processing", "error">>,
   <<"processing", "form">>, <<"error", "refundFunnel">>,
   <<"refundFunnel", "done">>}

Post == {"error", "refundFunnel", "done"}

Failures == {"FetchFailed", "Rejected", "ConfirmFailed"}

\* call c ends in this step
Completes(c) == calls[c].pc # "done" /\ calls'[c].pc = "done"

\* C1: the step changes only along the transition table, each change by its
\* trigger: form->processing by a submit, processing->error by the end of a
\* confirmed invocation, processing->form by the end of a failed one; the step
\* never goes from form to error directly.
C1_TransitionsFollowTable ==
  [][step' # step =>
       /\ <<step, step'>> \in Table
       /\ <<step, step'>> = <<"form", "processing">> => nCalls' = nCalls + 1
       /\ <<step, step'>> = <<"processing", "error">> =>
            \E c \in CallIds :
              Completes(c) /\ calls[c].pc = "delay" /\ calls'[c].outcome = "Confirmed"
       /\ <<step, step'>> = <<"processing", "form">> =>
            \E c \in CallIds : Completes(c) /\ calls'[c].outcome \in Failures]_vars

C1_Witness ==
  /\ step = "done"
  /\ calls[1].outcome = "Rejected"
  /\ calls[2].outcome = "Confirmed"

\* C2: a submit is triggered only with a session public key, and a submit
\* triggered while the wallet has no public key issues no reference fetch and
\* no signAndSendTransaction and leaves the committed step at form.
C2_NotConnectedNoPipeline ==
  [][nCalls' # nCalls =>
       /\ publicKey # Null
       /\ provider.publicKey = Null =>
            /\ step = "form" /\ step' = "form"
            /\ fetchLog' = fetchLog
            /\ submitLog' = submitLog
            /\ confirmLog' = confirmLog
            /\ calls'[nCalls'].pc = "done"]_vars

C2_Witness ==
  /\ step = "form"
  /\ calls[1].pc = "done"
  /\ calls[1].outcome = "NotConnected"
  /\ lastAlert = NotConnectedMsg
  /\ fetchLog = <<>>

\* C3: at most one simulateScamFlow invocation is between its start and its
\* completion.
C3_AtMostOneInFlight == Cardinality({c \in CallIds : InFlight(c)}) <= 1

C3_Witness == calls[1].pc = "done" /\ InFlight(2)

\* C4: busy is true while an invocation is in flight and false once no
\* invocation is in flight, whichever way the invocation ended.
C4_BusyHeldAndReleased ==
  /\ \A c \in CallIds : InFlight(c) => busy
  /\ (\A c \in CallIds : ~InFlight(c)) => ~busy

C4_Witness ==
  /\ calls[1].pc = "done"
  /\ calls[1].outcome = "ConfirmFailed"
  /\ calls[2].pc = "done"
  /\ calls[2].outcome = "Confirmed"
  /\ ~busy

\* the invocations whose confirmTransaction resolved
ConfirmedCalls == {c \in CallIds : calls[c].outcome = "Confirmed"}

\* C5: in the error, refundFunnel and done steps txSig is the signature of the
\* confirmed submission; it is already set in the state from which the step
\* becomes error, and no step taken in error, refundFunnel or done changes it.
C5_TxSigSetAndStable ==
  /\ [](step \in Post =>
          /\ txSig # Null
          /\ \E c \in ConfirmedCalls :
               /\ calls[c].signature = txSig
               /\ \E i \in DOMAIN confirmLog :
                    confirmLog[i].call = c /\ confirmLog[i].signature = txSig)
  /\ [][/\ (step # "error" /\ step' = "error") => (txSig # Null /\ txSig' = txSig)
        /\ step \in Post => txSig' = txSig]_vars

C5_Witness ==
  /\ step = "done"
  /\ txSig \in Sigs
  /\ calls[1].outcome = "Confirmed"
  /\ calls[1].signature = txSig

\* C6: the error, refundFunnel and done steps are reached only with a payment
\* confirmed on the ledger, an invocation that failed never leaves the step at
\* error, and once a payment is confirmed the step is never intro or form.
C6_ErrorOnlyAfterConfirmed ==
  /\ step \in Post =>
       \E c \in ConfirmedCalls : calls[c].signature \in ledgerConfirmed
  /\ ConfirmedCalls # {} => step \in {"processing"} \cup Post
  /\ (\E c \in CallIds : calls[c].outcome \in Failures) /\ ConfirmedCalls = {}
       => step \notin Post

C6_Witness ==
  /\ step = "error"
  /\ calls[1].outcome = "FetchFailed"
  /\ calls[2].outcome = "Confirmed"
  /\ calls[2].signature \in ledgerConfirmed

\* C7: while a reference fetch, a signAndSendTransaction or a
\* confirmTransaction is pending, txSig is null and the step is not error;
\* a non-null txSig is the signature signAndSendTransaction returned to an
\* invocation whose confirmTransaction for that signature has resolved.
C7_OutcomeAfterConfirmation ==
  /\ (\E c \in CallIds : calls[c].pc \in {"fetch", "sign", "confirm"})
       => txSig = Null /\ step # "error"
  /\ (txSig # Null \/ step = "error") =>
       \E i \in DOMAIN confirmLog :
         /\ confirmLog[i].signature = txSig
         /\ confirmLog[i].signature \in ledgerConfirmed
         /\ calls[confirmLog[i].call].pc \in {"delay", "done"}
         /\ calls[confirmLog[i].call].outcome = "Confirmed"

C7_Witness ==
  /\ step = "processing"
  /\ txSig # Null
  /\ calls[1].pc = "delay"

\* C8: when an invocation fails at the reference fetch, at
\* signAndSendTransaction or at confirmTransaction, the step goes from
\* processing to form, an alert with the error's message (or the fallback
\* text) is shown, busy is false, and txSig stays null; the step is always
\* one of the six values.
C8_FailureRevertsToForm ==
  /\ [](step \in Steps)
  /\ [][\A c \in CallIds :
          (Completes(c) /\ calls'[c].outcome \in Failures) =>
            /\ step = "processing" /\ step' = "form"
            /\ ~busy'
            /\ txSig = Null /\ txSig' = Null
            /\ lastAlert' \in ({e.message : e \in Errors} \ {""}) \cup {TxFallbackMsg}]_vars

C8_Witness ==
  /\ step = "form"
  /\ calls[1].pc = "done"
  /\ calls[1].outcome = "Rejected"
  /\ lastAlert = TxFallbackMsg
  /\ ~busy
  /\ txSig = Null

\* C9: every entry into processing is eventually followed by error or form.
C9_ProcessingEventuallyLeaves ==
  (step = "processing") ~> (step \in {"error", "form"})

\* C10: every signAndSendTransaction is issued with the reference its own
\* invocation fetched, in the step in which that fetch resolves; no two
\* submissions use the result of the same fetch.
C10_FreshReferencePerAttempt ==
  /\ [](/\ \A i \in DOMAIN submitLog :
             /\ submitLog[i].ref.fetchId \in DOMAIN fetchLog
             /\ fetchLog[submitLog[i].ref.fetchId] = submitLog[i].call
        /\ \A i, j \in DOMAIN submitLog :
             i # j => submitLog[i].ref.fetchId # submitLog[j].ref.fetchId
        /\ \A i, j \in DOMAIN fetchLog : i # j => fetchLog[i] # fetchLog[j])
  /\ [][submitLog' # submitLog =>
          /\ Len(submitLog') = Len(submitLog) + 1
          /\ LET s == submitLog'[Len(submitLog')] IN
             /\ calls[s.call].pc = "fetch"
             /\ calls[s.call].ref = NoRef
             /\ s.ref.blockhash = height
             /\ s.ref.lastValidBlockHeight = height + ValidityWindow]_vars

C10_Witness ==
  /\ Len(submitLog) = 2
  /\ submitLog[1].call = 1
  /\ submitLog[2].call = 2
  /\ submitLog[1].ref.blockhash = submitLog[2].ref.blockhash
  /\ submitLog[1].ref.fetchId # submitLog[2].ref.fetchId

\* C11: once the step is done, no step of the program or of its environment
\* changes the step or txSig, and no invocation starts.
C11_DoneIsTerminal ==
  [][step = "done" =>
       /\ step' = "done"
       /\ txSig' = txSig
       /\ nCalls' = nCalls
       /\ calls' = calls
       /\ connectPending' = connectPending]_vars

C11_Witness ==
  /\ step = "done"
  /\ txSig \in Sigs
  /\ provider.publicKey = Null
  /\ height = MaxHeight

\* the entries of a log made by call c
EntriesOf(log, c) == {i \in DOMAIN log : log[i].call = c}

\* C12: the step enters processing exactly when an invocation starts its
\* pipeline; each such invocation issues exactly one getLatestBlockhash, at
\* most one signAndSendTransaction and at most one confirmTransaction; the
\* step leaves processing exactly when that invocation ends, and an ended
\* invocation never runs again.
C12_OneInvocationOneOutcome ==
  /\ [](\A c \in CallIds :
          /\ Cardinality({i \in DOMAIN fetchLog : fetchLog[i] = c})
               = (IF calls[c].pc = "idle" \/ calls[c].outcome = "NotConnected"
                    THEN 0 ELSE 1)
          /\ Cardinality(EntriesOf(submitLog, c)) <= 1
          /\ Cardinality(EntriesOf(confirmLog, c)) <= 1
          /\ Cardinality(EntriesOf(confirmLog, c))
               <= Cardinality(EntriesOf(submitLog, c)))
  /\ [][/\ (step # "processing" /\ step' = "processing") <=>
             /\ nCalls' = nCalls + 1
             /\ Len(fetchLog') = Len(fetchLog) + 1
             /\ fetchLog'[Len(fetchLog')] = nCalls'
        /\ fetchLog' # fetchLog => (step # "processing" /\ step' = "processing")
        /\ (step = "processing" /\ step' # "processing") <=>
             \E c \in CallIds : InFlight(c) /\ calls'[c].pc = "done"
        /\ \A c \in CallIds :
             /\ calls[c].pc = "done" => calls'[c] = calls[c]
             /\ InFlight(c) /\ calls'[c].pc = "done" =>
                  calls'[c].outcome \in Failures \cup {"Confirmed"}]_vars

C12_Witness ==
  /\ calls[1].pc = "done"
  /\ calls[1].outcome = "ConfirmFailed"
  /\ calls[2].pc = "done"
  /\ calls[2].outcome = "Confirmed"
  /\ Len(fetchLog) = 2
  /\ Len(submitLog) = 2
  /\ Len(confirmLog) = 2
  /\ step = "error"

\* C13: whenever the wallet has no public key, the session publicKey is null.
C13_SessionClearedOnDisconnect == provider.publicKey = Null => publicKey = Null

\* a connectWallet call ends without a wallet, or with provider.connect()
\* rejecting
ConnectFails ==
  \/ ConnectClick /\ provider.kind = "none"
  \/ \E e \in Errors : ConnectReject(e)

\* C14: a connect attempt that ends because there is no wallet or because
\* provider.connect() rejects shows an alert, starts and ends with a null
\* session publicKey, leaves step, busy and txSig as they were, and ends with
\* connecting false.
C14_ConnectFailureContained ==
  [][ConnectFails =>
       /\ lastAlert' \in
            ({e.message : e \in Errors} \ {""}) \cup {NoWalletMsg, ConnectFallbackMsg}
       /\ publicKey = Null /\ publicKey' = Null
       /\ step' = step
       /\ busy' = busy
       /\ txSig' = txSig
       /\ ~connecting'
       /\ connectPending' = 0]_vars

C14_Witness ==
  /\ lastAlert = ConnectFallbackMsg
  /\ publicKey = Null
  /\ ~connecting
  /\ connectPending = 0
  /\ provider.kind = "phantom"
  /\ step = "form"

\* reading a link back: the path after <base>/tx/ up to the first "?" is the
\* signature, the query after it is cluster=<tag>
CharAt(s, i) == SubSeq(s, i, i)

TxPrefix == ExplorerBase \o "/tx/"

QueryKey == "cluster="

FirstQuestionMark(url) ==
  LET qs == {i \in 1..Len(url) : CharAt(url, i) = "?"} IN
  IF qs = {} THEN 0 ELSE CHOOSE i \in qs : \A j \in qs : i <= j

ParsedSignature(url) ==
  IF FirstQuestionMark(url) = 0 THEN SubSeq(url, Len(TxPrefix) + 1, Len(url))
  ELSE SubSeq(url, Len(TxPrefix) + 1, FirstQuestionMark(url) - 1)

ParsedQuery(url) ==
  IF FirstQuestionMark(url) = 0 THEN ""
  ELSE SubSeq(url, FirstQuestionMark(url) + 1, Len(url))

ParsedCluster(url) ==
  IF SubSeq(ParsedQuery(url), 1, Len(QueryKey)) = QueryKey
    THEN SubSeq(ParsedQuery(url), Len(QueryKey) + 1, Len(ParsedQuery(url)))
    ELSE Null

\* C15: the explorer link is null exactly when txSig is null; otherwise it
\* starts with <explorer-base>/tx/, and reading it back gives txSig as the
\* signature and devnet as the cluster.
C15_ExplorerLinkRoundTrip ==
  /\ explorerTxUrl = Null <=> txSig = Null
  /\ txSig # Null =>
       /\ SubSeq(explorerTxUrl, 1, Len(TxPrefix)) = TxPrefix
       /\ ParsedSignature(explorerTxUrl) = txSig
       /\ ParsedCluster(explorerTxUrl) = "devnet"
       /\ Len(explorerTxUrl) = Len(TxPrefix) + Len(txSig) + Len("?cluster=devnet")

C15_Witness ==
  /\ txSig = "SIG2"
  /\ step = "error"
  /\ explorerTxUrl = "https://explorer.solana.com/tx/SIG2?cluster=devnet"

\* C16: every confirmTransaction is issued by an invocation that has
\* submitted, in the step in which its signAndSendTransaction resolves, for
\* the signature extracted from that result, and with the blockhash and
\* lastValidBlockHeight of the one reference the invocation fetched and
\* submitted with; that step issues no fetch.
C16_ConfirmSameReference ==
  /\ [](\A i \in DOMAIN confirmLog :
          LET k == confirmLog[i] IN
          /\ k.signature = calls[k.call].signature
          /\ \E j \in DOMAIN submitLog :
               /\ submitLog[j].call = k.call
               /\ submitLog[j].ref = k.ref
          /\ k.ref.fetchId \in DOMAIN fetchLog
          /\ fetchLog[k.ref.fetchId] = k.call
          /\ Cardinality({f \in DOMAIN fetchLog : fetchLog[f] = k.call}) = 1)
  /\ [][confirmLog' # confirmLog =>
          /\ Len(confirmLog') = Len(confirmLog) + 1
          /\ fetchLog' = fetchLog
          /\ submitLog' = submitLog
          /\ LET k == confirmLog'[Len(confirmLog')] IN
             /\ calls[k.call].pc = "sign"
             /\ k.ref = calls[k.call].ref
             /\ k.signature \in Sigs \cup {Null}]_vars

C16_Witness ==
  /\ Len(confirmLog) = 1
  /\ confirmLog[1].signature = "SIG1"
  /\ confirmLog[1].ref.blockhash = 0
  /\ confirmLog[1].ref = submitLog[1].ref
  /\ height = 1
  /\ calls[1].pc = "confirm"

\* C17: in every committed state busy is true exactly when the step is
\* processing.
C17_BusyIffProcessing == busy <=> step = "processing"

C17_Witness ==
  /\ calls[1].outcome = "FetchFailed"
  /\ calls[2].outcome = "NotConnected"
  /\ ~busy
  /\ step = "form"

\* C18: at most one invocation is ever confirmed, and once txSig is set no
\* invocation starts, the step is never form again, and txSig keeps its value.
C18_AtMostOneConfirmedPayment ==
  /\ [](/\ Cardinality(ConfirmedCalls) <= 1
        /\ Cardinality(ledgerConfirmed) <= 1)
  /\ [][txSig # Null =>
          /\ txSig' = txSig
          /\ nCalls' = nCalls
          /\ step' \notin {"intro", "form"}]_vars

C18_Witness ==
  /\ txSig # Null
  /\ nCalls < MaxCalls
  /\ step = "refundFunnel"
  /\ publicKey # Null
  /\ provider.publicKey # Null

\* C19: txSig is null in the intro and form steps; a non-null txSig in the
\* processing step occurs only while an invocation waits for the timer that
\* follows its confirmation.
C19_NoTxSigBeforeError ==
  /\ step \in {"intro", "form"} => txSig = Null
  /\ txSig # Null => step \in {"processing"} \cup Post
  /\ (txSig # Null /\ step = "processing") =>
       \E c \in CallIds : calls[c].pc = "delay" /\ calls[c].signature = txSig

C19_Witness ==
  /\ step = "form"
  /\ calls[1].pc = "done"
  /\ calls[1].outcome = "ConfirmFailed"
  /\ calls[1].signature \in Sigs
  /\ txSig = Null

\* C20: at most one connectWallet call is pending; while one is pending the
\* session publicKey is null and no simulateScamFlow invocation is in flight,
\* and while an invocation is in flight the session publicKey is set.
C20_ConnectSerialized ==
  /\ connectPending <= 1
  /\ connectPending > 0 =>
       /\ connecting
       /\ publicKey = Null
       /\ \A c \in CallIds : ~InFlight(c)
  /\ (\E c \in CallIds : InFlight(c)) => publicKey # Null

C20_Witness ==
  /\ connectPending = 1
  /\ connecting
  /\ step = "form"
  /\ provider.publicKey # Null
  /\ lastAlert # "none"

====
